---- MODULE Spec2Model ----
(***************************************************************************)
(* CCSDS Reed-Solomon (255,223) decoder of rs2: the decode pipeline of     *)
(* correct_message (src/src/lib.rs), the quick check has_errors and the    *)
(* dual-basis / conventional-basis conversion (src/src/dual_basis.rs).     *)
(*                                                                         *)
(* The field engine (module gf of the crate) is not among the sources; it  *)
(* is modelled from the specification's section 4.1: GF(2^8) under the     *)
(* primitive polynomial x^8+x^7+x^2+x+1 with log/antilog tables.           *)
(*                                                                         *)
(* Vec<u8> is a sequence of bytes 0..255, 1-indexed here: the Rust index i *)
(* is the TLA+ index i + 1.  Option<Vec<u8>> is a sequence of at most one  *)
(* element: None is << >> and Some(v) is << v >>.                          *)
(***************************************************************************)
EXTENDS Integers, Sequences, FiniteSets, TLC

\* ------------------------------------------------------------------------
\* Constants of src/src/lib.rs
\* ------------------------------------------------------------------------

\* Symbols per code word
N == 255

\* Common irreducible primitive polynomial x^8 + x^7 + x^2 + x + 1
PRIM == 391

\* Primitive element: alpha^11
GEN == 173

\* First consecutive root in g(x)
FCR == 112

\* Number of bytes of parity for each message
PARITY_LEN == 32

\* ------------------------------------------------------------------------
\* src/src/dual_basis.rs
\* ------------------------------------------------------------------------

DUAL_TO_CONV ==
  <<
      0, 204, 172,  96, 121, 181, 213,  25, 240,  60,  92, 144, 137,  69,  37, 233,
    253,  49,  81, 157, 132,  72,  40, 228,  13, 193, 161, 109, 116, 184, 216,  20,
     46, 226, 130,  78,  87, 155, 251,  55, 222,  18, 114, 190, 167, 107,  11, 199,
    211,  31, 127, 179, 170, 102,   6, 202,  35, 239, 143,  67,  90, 150, 246,  58,
     66, 142, 238,  34,  59, 247, 151,  91, 178, 126,  30, 210, 203,   7, 103, 171,
    191, 115,  19, 223, 198,  10, 106, 166,  79, 131, 227,  47,  54, 250, 154,  86,
    108, 160, 192,  12,  21, 217, 185, 117, 156,  80,  48, 252, 229,  41,  73, 133,
    145,  93,  61, 241, 232,  36,  68, 136,  97, 173, 205,   1,  24, 212, 180, 120,
    197,   9, 105, 165, 188, 112,  16, 220,  53, 249, 153,  85,  76, 128, 224,  44,
     56, 244, 148,  88,  65, 141, 237,  33, 200,   4, 100, 168, 177, 125,  29, 209,
    235,  39,  71, 139, 146,  94,  62, 242,  27, 215, 183, 123,  98, 174, 206,   2,
     22, 218, 186, 118, 111, 163, 195,  15, 230,  42,  74, 134, 159,  83,  51, 255,
    135,  75,  43, 231, 254,  50,  82, 158, 119, 187, 219,  23,  14, 194, 162, 110,
    122, 182, 214,  26,   3, 207, 175,  99, 138,  70,  38, 234, 243,  63,  95, 147,
    169, 101,   5, 201, 208,  28, 124, 176,  89, 149, 245,  57,  32, 236, 140,  64,
     84, 152, 248,  52,  45, 225, 129,  77, 164, 104,   8, 196, 221,  17, 113, 189
  >>

CONV_TO_DUAL ==
  <<
      0, 123, 175, 212, 153, 226,  54,  77, 250, 129,  85,  46,  99,  24, 204, 183,
    134, 253,  41,  82,  31, 100, 176, 203, 124,   7, 211, 168, 229, 158,  74,  49,
    236, 151,  67,  56, 117,  14, 218, 161,  22, 109, 185, 194, 143, 244,  32,  91,
    106,  17, 197, 190, 243, 136,  92,  39, 144, 235,  63,  68,   9, 114, 166, 221,
    239, 148,  64,  59, 118,  13, 217, 162,  21, 110, 186, 193, 140, 247,  35,  88,
    105,  18, 198, 189, 240, 139,  95,  36, 147, 232,  60,  71,  10, 113, 165, 222,
      3, 120, 172, 215, 154, 225,  53,  78, 249, 130,  86,  45,  96,  27, 207, 180,
    133, 254,  42,  81,  28, 103, 179, 200, 127,   4, 208, 171, 230, 157,  73,  50,
    141, 246,  34,  89,  20, 111, 187, 192, 119,  12, 216, 163, 238, 149,  65,  58,
     11, 112, 164, 223, 146, 233,  61,  70, 241, 138,  94,  37, 104,  19, 199, 188,
     97,  26, 206, 181, 248, 131,  87,  44, 155, 224,  52,  79,   2, 121, 173, 214,
    231, 156,  72,  51, 126,   5, 209, 170,  29, 102, 178, 201, 132, 255,  43,  80,
     98,  25, 205, 182, 251, 128,  84,  47, 152, 227,  55,  76,   1, 122, 174, 213,
    228, 159,  75,  48, 125,   6, 210, 169,  30, 101, 177, 202, 135, 252,  40,  83,
    142, 245,  33,  90,  23, 108, 184, 195, 116,  15, 219, 160, 237, 150,  66,  57,
      8, 115, 167, 220, 145, 234,  62,  69, 242, 137,  93,  38, 107,  16, 196, 191
  >>


\* Fault variant of to_conv: the table of the other direction is used.
to_conv_wrong_table(msg) == [i \in 1..Len(msg) |-> CONV_TO_DUAL[msg[i] + 1]]

\* Convert data to conventional format: out[i] = DUAL_TO_CONV[msg[i]].
to_conv(msg) == [i \in 1..Len(msg) |-> DUAL_TO_CONV[msg[i] + 1]]

\* Fault variant of to_dual: the table of the other direction is used.
to_dual_wrong_table(msg) == [i \in 1..Len(msg) |-> DUAL_TO_CONV[msg[i] + 1]]

\* Convert data to dual-basis format: out[i] = CONV_TO_DUAL[msg[i]].
to_dual(msg) == [i \in 1..Len(msg) |-> CONV_TO_DUAL[msg[i] + 1]]

\* ------------------------------------------------------------------------
\* Field engine gf (specification section 4.1): GF(2^8), bytes as elements.
\* ------------------------------------------------------------------------

Byte == 0..255

\* Bit n (of weight w = 2^n) of a.
BitOf(a, w) == (a \div w) % 2

\* Exclusive or of two bits.
XorBit(x, y) == (x + y) % 2

\* Bitwise exclusive or of two 4-bit values, bit by bit.
Xor4 ==
  [a \in 0..15 |-> [b \in 0..15 |->
      XorBit(BitOf(a, 1), BitOf(b, 1))
    + (2 * XorBit(BitOf(a, 2), BitOf(b, 2)))
    + (4 * XorBit(BitOf(a, 4), BitOf(b, 4)))
    + (8 * XorBit(BitOf(a, 8), BitOf(b, 8)))]]

\* Bitwise exclusive or of two bytes (u8 ^ u8), the field's addition.
XorTable ==
  [a \in Byte |-> [b \in Byte |->
      (16 * Xor4[a \div 16][b \div 16]) + Xor4[a % 16][b % 16]]]

Xor(a, b) == XorTable[a][b]

\* Multiplication by the field's element x (alpha): shift left, reduce by PRIM.
XTime(a) == IF 2 * a >= 256 THEN Xor(2 * a - 256, PRIM - 256) ELSE 2 * a

\* The n successive powers a, a alpha, a alpha^2, ... (the first half, then
\* the second half continued from the last element of the first).
RECURSIVE AlphaPowers(_, _)
AlphaPowers(a, n) ==
  IF n = 1 THEN <<a>>
  ELSE LET h    == n \div 2
           left == AlphaPowers(a, h)
       IN  left \o AlphaPowers(XTime(left[h]), n - h)

\* Antilog table: GF_EXP[i] = alpha^i for i in 0..254.
GF_EXP == LET s == AlphaPowers(1, 255) IN [i \in 0..254 |-> s[i + 1]]

\* Log table: GF_LOG[a] = the i in 0..254 with alpha^i = a, for a in 1..255.
GF_LOG == [a \in 1..255 |-> CHOOSE i \in 0..254 : GF_EXP[i] = a]

gf_mult(a, b) ==
  IF a = 0 \/ b = 0 THEN 0 ELSE GF_EXP[(GF_LOG[a] + GF_LOG[b]) % 255]

\* Fails for b = 0: the callers' guards are modelled at the call sites.
gf_div(a, b) ==
  IF a = 0 THEN 0 ELSE GF_EXP[(GF_LOG[a] + 255 - GF_LOG[b]) % 255]

\* Fails for a = 0: the callers' guards are modelled at the call sites.
gf_inv(a) == GF_EXP[(255 - GF_LOG[a]) % 255]

\* a^e for any integer e, the exponent normalized modulo 255.
gf_pow(a, e) == GF_EXP[(GF_LOG[a] * (e % 255)) % 255]

\* Horner's method, most significant coefficient first: y = y * x ^ p[i] for
\* i = lo, ..., hi in this order.  The range is halved to keep the evaluation
\* shallow: the value after the first half, a byte, is what the second half
\* starts from, so the steps and their order are those of the loop.
RECURSIVE poly_eval_from(_, _, _, _, _)
poly_eval_from(p, x, y, lo, hi) ==
  IF lo > hi THEN y
  ELSE IF lo = hi THEN Xor(gf_mult(y, x), p[lo])
  ELSE LET mid  == (lo + hi) \div 2
           half == poly_eval_from(p, x, y, lo, mid)
       IN  IF half \in Byte THEN poly_eval_from(p, x, half, mid + 1, hi)
           ELSE half

poly_eval(p, x) == poly_eval_from(p, x, p[1], 2, Len(p))

\* The coefficient of p when right-aligned in a sequence of length n.
AlignedCoef(p, n, i) ==
  IF i > n - Len(p) THEN p[i - (n - Len(p))] ELSE 0

\* Coefficient-wise XOR after right-aligning the shorter operand.
poly_add(p, q) ==
  LET n == IF Len(p) > Len(q) THEN Len(p) ELSE Len(q)
  IN  [i \in 1..n |-> Xor(AlignedCoef(p, n, i), AlignedCoef(q, n, i))]

poly_scale(p, k) == [i \in 1..Len(p) |-> gf_mult(p[i], k)]

\* XOR of the field elements s[lo], ..., s[hi].
RECURSIVE XorSum(_, _, _)
XorSum(s, lo, hi) ==
  IF lo > hi THEN 0
  ELSE IF lo = hi THEN s[lo]
  ELSE LET mid == (lo + hi) \div 2
       IN  Xor(XorSum(s, lo, mid), XorSum(s, mid + 1, hi))

\* Convolution: the coefficient at index k collects p[i] * q[k + 1 - i].
poly_mult(p, q) ==
  [k \in 1..(Len(p) + Len(q) - 1) |->
     LET lo == IF k + 1 - Len(q) > 1 THEN k + 1 - Len(q) ELSE 1
         hi == IF k < Len(p) THEN k ELSE Len(p)
         terms == [i \in lo..hi |-> gf_mult(p[i], q[k + 1 - i])]
     IN  XorSum(terms, lo, hi)]

\* Polynomial long division: one step per quotient coefficient.
RECURSIVE poly_div_from(_, _, _)
poly_div_from(out, divisor, i) ==
  IF i > Len(out) - (Len(divisor) - 1) THEN out
  ELSE LET coef == gf_div(out[i], divisor[1])
           next == [j \in 1..Len(out) |->
                      IF j = i THEN coef
                      ELSE IF j > i /\ j < i + Len(divisor)
                        THEN Xor(out[j], gf_mult(divisor[j - i + 1], coef))
                        ELSE out[j]]
       IN  poly_div_from(next, divisor, i + 1)

\* The remainder of dividend / divisor (the second component of poly_div).
poly_div_rem(dividend, divisor) ==
  LET out == poly_div_from(dividend, divisor, 1)
      nq  == Len(dividend) - (Len(divisor) - 1)
  IN  [j \in 1..(Len(divisor) - 1) |-> out[nq + j]]

\* Reverse of a sequence (Vec::reverse).
Reverse(s) == [i \in 1..Len(s) |-> s[Len(s) + 1 - i]]

\* ------------------------------------------------------------------------
\* src/src/lib.rs: the algorithms
\* ------------------------------------------------------------------------

\* Maximum of a non-empty sequence of bytes (synd.iter().max().unwrap()).
MaxOf(s) == CHOOSE m \in {s[i] : i \in 1..Len(s)} :
              \A i \in 1..Len(s) : s[i] <= m

\* synd[0] = 0 and synd[i + 1] = input(GEN^(i + FCR)) for i in 0..parity_len-1.
calc_syndromes(input, parity_len) ==
  [i \in 1..(parity_len + 1) |->
     IF i = 1 THEN 0 ELSE poly_eval(input, gf_pow(GEN, (i - 2) + FCR))]

\* One erasure position folded into fsynd: every entry but the last becomes
\* fsynd[j] * x ^ fsynd[j + 1] (the loop reads fsynd[j + 1] before writing it).
forney_fold(fsynd, x) ==
  [j \in 1..Len(fsynd) |->
     IF j < Len(fsynd) THEN Xor(gf_mult(fsynd[j], x), fsynd[j + 1])
     ELSE fsynd[j]]

RECURSIVE forney_from(_, _, _, _)
forney_from(fsynd, pos, nmess, i) ==
  IF i > Len(pos) THEN fsynd
  ELSE forney_from(forney_fold(fsynd, gf_pow(GEN, nmess - 1 - pos[i])),
                   pos, nmess, i + 1)

\* Drops the leading sentinel, then folds in each erasure position.
forney_syndromes(synd, pos, nmess) ==
  forney_from(SubSeq(synd, 2, Len(synd)), pos, nmess, 1)

\* synd_shift of find_error_locator.
synd_shift(synd, parity_len) ==
  IF Len(synd) > parity_len THEN Len(synd) - parity_len ELSE 0

\* The discrepancy of iteration i: synd[k] ^ XOR_j errloc[len-j-1] * synd[k-j]
\* for j in 1..len-1, with k = i + synd_shift (indices of the Rust code).
locator_delta(errloc, synd, k) ==
  LET terms == [j \in 1..(Len(errloc) - 1) |->
                 gf_mult(errloc[Len(errloc) - j], synd[k + 1 - j])]
  IN  Xor(synd[k + 1], XorSum(terms, 1, Len(errloc) - 1))

\* One iteration of the loop of find_error_locator.  The index k - j is a
\* usize: the iteration panics when errloc has more than k + 1 coefficients.
locator_step(errloc, oldloc, synd, k) ==
  IF Len(errloc) - 1 > k
  THEN [panic |-> TRUE, errloc |-> errloc, oldloc |-> oldloc, inv |-> {}]
  ELSE
    LET delta  == locator_delta(errloc, synd, k)
        pushed == Append(oldloc, 0)
    IN  IF delta = 0
        THEN [panic |-> FALSE, errloc |-> errloc, oldloc |-> pushed, inv |-> {}]
        ELSE IF Len(pushed) > Len(errloc)
        THEN LET newloc == poly_scale(pushed, delta)
                 scaled == poly_scale(errloc, gf_inv(delta))
             IN  [panic |-> FALSE,
                  errloc |-> poly_add(newloc, poly_scale(scaled, delta)),
                  oldloc |-> scaled, inv |-> {delta}]
        ELSE [panic |-> FALSE,
              errloc |-> poly_add(errloc, poly_scale(pushed, delta)),
              oldloc |-> pushed, inv |-> {}]

\* while errloc.len() > 0 && errloc[0] == 0 { errloc = errloc[1..] }
RECURSIVE strip_leading_zeros(_)
strip_leading_zeros(errloc) ==
  IF Len(errloc) > 0 /\ errloc[1] = 0
  THEN strip_leading_zeros(SubSeq(errloc, 2, Len(errloc)))
  ELSE errloc

\* Fault variant of find_errors: position N - i is pushed for the root i.
find_errors_off_by_one(errloc) ==
  LET is_root(pos) == poly_eval(errloc, gf_pow(GEN, N - pos)) = 0
  IN  SelectSeq([j \in 1..N |-> N + 1 - j], is_root)

\* Position N - 1 - i for every i in 0..N-1 with errloc(GEN^i) = 0, pushed
\* for i ascending: the positions N-1, ..., 0 filtered by the root test.
find_errors(errloc) ==
  LET is_root(pos) == poly_eval(errloc, gf_pow(GEN, N - 1 - pos)) = 0
  IN  SelectSeq([j \in 1..N |-> N - j], is_root)

\* The product of (1 + GEN^p x) over the positions p.
RECURSIVE find_errata_locator_from(_, _, _)
find_errata_locator_from(errloc, errpos, i) ==
  IF i > Len(errpos) THEN errloc
  ELSE find_errata_locator_from(
         poly_mult(errloc, poly_add(<<1>>, <<gf_pow(GEN, errpos[i]), 0>>)),
         errpos, i + 1)

find_errata_locator(errpos) == find_errata_locator_from(<<1>>, errpos, 1)

\* Fault variant of find_error_evaluator: the divisor is one term short.
find_error_evaluator_short(synd, errloc, n) ==
  LET divisor == [j \in 1..(n + 1) |-> IF j = 1 THEN 1 ELSE 0]
  IN  poly_div_rem(poly_mult(synd, errloc), divisor)

\* The remainder of synd * errloc by x^(n + 1).
find_error_evaluator(synd, errloc, n) ==
  LET divisor == [j \in 1..(n + 2) |-> IF j = 1 THEN 1 ELSE 0]
  IN  poly_div_rem(poly_mult(synd, errloc), divisor)

\* errloc_prime = 1; for c in s { errloc_prime = errloc_prime * c }
RECURSIVE gf_product(_, _)
gf_product(s, n) ==
  IF n = 0 THEN 1 ELSE gf_mult(gf_product(s, n - 1), s[n])

\* Forney: the magnitude at each located position, XORed into the block.
\* Result: [ok, block, err, inv], inv the arguments gf::inv was applied to.
correct_errata(input, synd, errpos) ==
  LET coef_pos == [i \in 1..Len(errpos) |-> Len(input) - 1 - errpos[i]]
      errloc   == find_errata_locator(coef_pos)
      erreval  == Reverse(find_error_evaluator(Reverse(synd), errloc,
                                               Len(errloc) - 1))
      x        == [i \in 1..Len(coef_pos) |-> gf_pow(GEN, -(N - coef_pos[i]))]
      errloc_prime_tmp(i) ==
        [t \in 1..(Len(x) - 1) |->
           Xor(1, gf_mult(gf_inv(x[i]), x[IF t < i THEN t ELSE t + 1]))]
      errloc_prime(i) == gf_product(errloc_prime_tmp(i), Len(x) - 1)
      magnitude(i) ==
        LET y == poly_eval(Reverse(erreval), gf_inv(x[i]))
        IN  gf_div(gf_mult(gf_pow(x[i], 1 - FCR), y), errloc_prime(i))
      last(p) == CHOOSE i \in 1..Len(errpos) :
                   /\ errpos[i] = p
                   /\ \A j \in 1..Len(errpos) : errpos[j] = p => j <= i
      e == [p \in 1..Len(input) |->
              IF \E i \in 1..Len(errpos) : errpos[i] = p - 1
              THEN magnitude(last(p - 1)) ELSE 0]
      args == {x[i] : i \in 1..Len(x)}
  IN  IF \E i \in 1..Len(x) : errloc_prime(i) = 0
      THEN [ok |-> FALSE, block |-> << >>,
            err |-> "failed to find error magnitude", inv |-> args]
      ELSE [ok |-> TRUE, block |-> poly_add(input, e), err |-> "", inv |-> args]

\* Fault variant of invalid_length: only short inputs are rejected.
invalid_length_short_only(input) == Len(input) < N

\* lib.rs 190: the length check of correct_message.
invalid_length(input) == Len(input) /= N

\* lib.rs 199-201: no non-zero syndrome, there are no errors.
no_errors(synd) == MaxOf(synd) = 0

\* Fault variant of ok_message: the converted block is returned.
ok_message_converted(input, out) == <<out>>

\* lib.rs 204: the message returned with state Ok is the input itself.
ok_message(input, out) == <<input>>

\* Fault variant of too_many_errors: compared with PARITY_LEN, not its half.
too_many_errors_loose(num_errs) == num_errs > PARITY_LEN

\* lib.rs 211-212: more errors than PARITY_LEN / 2 cannot be corrected.
too_many_errors(num_errs) == num_errs * 2 > PARITY_LEN

\* Fault variant of not_corrected: the final verification is skipped.
not_corrected_skipped(synd) == FALSE

\* lib.rs 252: a non-zero syndrome is left after the correction.
not_corrected(synd) == MaxOf(synd) > 0

\* Return true if the input code block contains 1 or more errors: the running
\* maximum x of the syndromes, compared with 0.
RECURSIVE has_errors_from(_, _, _)
has_errors_from(synd, i, x) ==
  IF i > Len(synd) THEN x
  ELSE has_errors_from(synd, i + 1, IF synd[i] > x THEN synd[i] ELSE x)

\* Fault variant of has_errors: the block is not converted to conventional
\* basis before the syndromes are computed.
has_errors_no_conversion(msg) ==
  has_errors_from(calc_syndromes(msg, PARITY_LEN), 1, 0) /= 0

has_errors(msg) ==
  has_errors_from(calc_syndromes(to_conv(msg), PARITY_LEN), 1, 0) /= 0

\* ------------------------------------------------------------------------
\* Inputs: code blocks in dual basis, the fixture of the tests of lib.rs
\* ------------------------------------------------------------------------

\* Largest number of byte errors introduced into a codeword.
MaxErrors == 18

\* Number of error patterns (placements of the errors in the block).
NumPatterns == 2

\* Largest number of byte errors introduced into the other codeword.
MaxNear == 1

\* Largest distance of an input's length from N.
MaxLenDiff == 1

FIXTURE_MSG ==
  <<
    103, 196, 107, 167,  62, 190,  76,  51, 108, 178,  35,  58, 116,   6,  43,
     24, 171, 184,   9, 230, 125, 175,  93, 229, 223, 118,  37,  63, 185,  20,
    238, 236, 209, 163,  57,  95,  56, 104, 240,  38, 166, 138, 203,   9, 175,
     78, 248, 147, 247,  69,  75,  13, 169, 184, 116,  14, 243, 199, 237, 110,
    163,  15, 246, 121, 148,  22, 226, 127, 173, 145, 145,   4, 172, 164, 174,
    180,  81, 118,  47,  98,   3,  94, 161, 229,  92,  69, 248,  31, 122, 123,
    232,  53, 216, 204,  81,  14, 174,  58,  42, 100,  29,   3,  16, 205,  24,
    230, 127, 239, 186, 217, 232, 152,  71, 130, 156, 161,  88,  71,  37, 223,
     65, 210,   1,  98,  60,  36, 136, 144, 233, 215,  56,  27, 160, 162, 180,
     35, 234, 126,  88,  13, 244,  97,  36,  20, 176,  65, 144,  12, 183, 187,
     92,  89,  27, 198, 105,  36,  15, 182,  14,  20, 161, 177, 142,  72,  15,
     23,  29, 251,  15,  56,  66, 227,  36,  88, 171, 130, 168, 253, 223, 172,
    104, 147,  61,  13, 143,  80,  82,  68, 108, 186, 211,  81, 153, 156,  62,
    173, 213, 168, 215, 157, 199, 127, 159, 201,  42, 172, 229, 194, 205, 154,
    155, 250,  45, 114, 171, 107, 164, 107, 139, 125, 250, 108, 131,  99, 119,
    159,  78, 154,  32,  53, 210, 145, 206, 244,  33,  26, 151,  60,  26,  21,
    157, 252, 152, 186, 114,  27, 154, 162, 233, 201,  70, 104, 206, 173,  39
  >>

\* The all-zero block: every syndrome of it is zero.
ZeroBlock == [p \in 1..N |-> 0]

Codewords == {FIXTURE_MSG, ZeroBlock}

\* Pattern s places error j at offset (start + j * stride) mod N: pattern 1 is
\* offsets 0, 2, 4, 6, ... of test_correct_message_introduced_errors; pattern 2
\* is a burst over the end of the block, 245, ..., 254, 0, 1, ...
ErrOffset(j, s) ==
  LET stride == IF s % 2 = 1 THEN s + 1 ELSE s - 1
      start  == ((s - 1) * 245) % N
  IN  (start + j * stride) % N

\* The nonzero mask XORed into the byte of error j: the byte always changes.
ErrMask(j, s) == ((j * 37 + s * 101) % 255) + 1

\* Block c with k bytes changed, at the offsets of pattern s.
Corrupt(c, k, s) ==
  [p \in 1..N |->
     IF \E j \in 0..(k - 1) : ErrOffset(j, s) = p - 1
     THEN LET e == CHOOSE j \in 0..(k - 1) : ErrOffset(j, s) = p - 1
          IN  Xor(c[p], ErrMask(e, s))
     ELSE c[p]]

\* The product of (x - GEN^(FCR+j)) over j in lo..hi, j /= skip.
RECURSIVE RootsProduct(_, _, _)
RootsProduct(lo, hi, skip) ==
  IF lo > hi THEN <<1>>
  ELSE IF lo = skip THEN RootsProduct(lo + 1, hi, skip)
  ELSE poly_mult(<<1, gf_pow(GEN, FCR + lo)>>, RootsProduct(lo + 1, hi, skip))

\* The dual basis form of a block given in conventional basis.
InDualBasis(conv) == [p \in 1..Len(conv) |-> CONV_TO_DUAL[conv[p] + 1]]

\* A block, in dual basis, of which exactly one syndrome is nonzero, the one
\* of index skip + 1: the block has every other GEN^(FCR+j) as a root.
SingleSyndromeBlock(skip) ==
  InDualBasis(poly_add(ZeroBlock, RootsProduct(0, PARITY_LEN - 1, skip)))

\* Only the first syndrome nonzero, and only the last one.
SingleSyndromeBlocks ==
  {SingleSyndromeBlock(0), SingleSyndromeBlock(PARITY_LEN - 1)}

\* Blocks of a wrong length: the empty block, and c cut or extended.
WrongLength(c) ==
  {<< >>} \cup
  UNION {{SubSeq(c, 1, N - d), c \o [p \in 1..d |-> 0]} : d \in 1..MaxLenDiff}

\* The blocks received when c was sent.
Received(c) ==
       {Corrupt(c, k, s) : k \in 0..MaxErrors, s \in 1..NumPatterns}
  \cup {Corrupt(d, k, s) : d \in Codewords \ {c}, k \in 0..MaxNear,
                           s \in 1..NumPatterns}
  \cup SingleSyndromeBlocks
  \cup WrongLength(c)

\* ------------------------------------------------------------------------
\* correct_message as a state machine
\* ------------------------------------------------------------------------

VARIABLES
  pc,        \* position in correct_message, "done" once it has returned
  orig,      \* the codeword that was sent (not known to the decoder)
  input,     \* the received block, dual basis
  out,       \* the block in conventional basis, then the corrected block
  synd,      \* calc_syndromes of the received block
  fsynd,     \* forney_syndromes(synd, [], len)
  errloc,    \* the locator of find_error_locator, then the stripped locator
  oldloc,    \* oldloc of find_error_locator
  iter,      \* loop index i of find_error_locator
  errpos,    \* the positions of find_errors
  synd2,     \* calc_syndromes of the corrected block
  state,     \* Block::state
  message,   \* Block::message
  errs,      \* result of has_errors(input): << >> until called, then <<b>>
  inv_args,  \* the values gf::inv has been applied to
  back       \* basis conversion only: the block converted there and back

vars == <<pc, orig, input, out, synd, fsynd, errloc, oldloc, iter, errpos,
          synd2, state, message, errs, inv_args, back>>

None == << >>
Some(v) == <<v>>

NotPerformed == [tag |-> "NotPerformed"]
StateOk == [tag |-> "Ok"]
Corrected(n) == [tag |-> "Corrected", n |-> n]
Uncorrectable(reason) == [tag |-> "Uncorrectable", reason |-> reason]
TooMany(found) ==
  [tag |-> "Uncorrectable", reason |-> "too many errors to correct",
   expected |-> PARITY_LEN \div 2, found |-> found]
BadPositions(expected, got) ==
  [tag |-> "Uncorrectable", reason |-> "failed to generate error positions",
   expected |-> expected, got |-> got]

\* Everything but the block and the position is empty before the call.
Fresh ==
  /\ out = << >>
  /\ synd = << >>
  /\ fsynd = << >>
  /\ errloc = << >>
  /\ oldloc = << >>
  /\ iter = 0
  /\ errpos = << >>
  /\ synd2 = << >>
  /\ state = NotPerformed
  /\ message = None
  /\ errs = << >>
  /\ inv_args = {}
  /\ back = << >>

Init ==
  /\ orig \in Codewords
  /\ input \in Received(orig)
  /\ pc = "validate"
  /\ Fresh

\* The Block is returned.
Return(s, m) ==
  /\ pc' = "done"
  /\ state' = s
  /\ message' = m

\* lib.rs 189-195: the length check.
Validate ==
  /\ pc = "validate"
  /\ IF invalid_length(input)
     THEN Return(Uncorrectable("invalid input"), None)
     ELSE /\ pc' = "syndromes"
          /\ UNCHANGED <<state, message>>
  /\ UNCHANGED <<orig, input, out, synd, fsynd, errloc, oldloc, iter, errpos,
                 synd2, errs, inv_args, back>>

\* lib.rs 196-209: to conventional basis, the syndromes, the early exit, and
\* the set-up of find_error_locator.
Syndromes ==
  /\ pc = "syndromes"
  /\ out' = to_conv(input)
  /\ synd' = calc_syndromes(out', PARITY_LEN)
  /\ IF no_errors(synd')
     THEN /\ Return(StateOk, ok_message(input, out'))
          /\ UNCHANGED <<fsynd, errloc, oldloc>>
     ELSE /\ pc' = "locate"
          /\ fsynd' = forney_syndromes(synd', << >>, Len(out'))
          /\ errloc' = <<1>>
          /\ oldloc' = <<1>>
          /\ UNCHANGED <<state, message>>
  /\ UNCHANGED <<orig, input, iter, errpos, synd2, errs, inv_args, back>>

\* lib.rs 123-138: one iteration of the loop of find_error_locator.
LocatorIter ==
  /\ pc = "locate"
  /\ iter < PARITY_LEN
  /\ LET r == locator_step(errloc, oldloc, fsynd,
                           iter + synd_shift(fsynd, PARITY_LEN))
     IN  /\ pc' = IF r.panic THEN "panic" ELSE "locate"
         /\ errloc' = r.errloc
         /\ oldloc' = r.oldloc
         /\ inv_args' = inv_args \cup r.inv
  /\ iter' = iter + 1
  /\ UNCHANGED <<orig, input, out, synd, fsynd, errpos, synd2, state, message,
                 errs, back>>

\* lib.rs 140-144 and 211-222: the leading zeros are stripped, and a locator
\* of degree above PARITY_LEN / 2 is rejected.  errloc.len() - 1 is a usize:
\* an empty locator panics.
LocatorDone ==
  /\ pc = "locate"
  /\ iter = PARITY_LEN
  /\ errloc' = strip_leading_zeros(errloc)
  /\ IF Len(errloc') = 0
     THEN /\ pc' = "panic"
          /\ UNCHANGED <<state, message>>
     ELSE IF too_many_errors(Len(errloc') - 1)
     THEN Return(TooMany(Len(errloc') - 1), None)
     ELSE /\ pc' = "search"
          /\ UNCHANGED <<state, message>>
  /\ UNCHANGED <<orig, input, out, synd, fsynd, oldloc, iter, errpos, synd2,
                 errs, inv_args, back>>

\* lib.rs 224-239: the position search on the reversed locator.
Search ==
  /\ pc = "search"
  /\ errpos' = find_errors(Reverse(errloc))
  /\ IF Len(errpos') /= Len(errloc) - 1
     THEN Return(BadPositions(Len(errloc) - 1, Len(errpos')), None)
     ELSE /\ pc' = "correct"
          /\ UNCHANGED <<state, message>>
  /\ UNCHANGED <<orig, input, out, synd, fsynd, errloc, oldloc, iter, synd2,
                 errs, inv_args, back>>

\* lib.rs 241-249: the errata corrector.  A position outside the block panics
\* at e[errpos[i] as usize].
Correct ==
  /\ pc = "correct"
  /\ IF \E j \in 1..Len(errpos) : errpos[j] < 0 \/ errpos[j] >= Len(out)
     THEN /\ pc' = "panic"
          /\ UNCHANGED <<out, state, message, inv_args>>
     ELSE LET r == correct_errata(out, synd, errpos)
          IN  /\ inv_args' = inv_args \cup r.inv
              /\ IF r.ok
                 THEN /\ out' = r.block
                      /\ pc' = "verify"
                      /\ UNCHANGED <<state, message>>
                 ELSE /\ Return(Uncorrectable(r.err), None)
                      /\ UNCHANGED out
  /\ UNCHANGED <<orig, input, synd, fsynd, errloc, oldloc, iter, errpos,
                 synd2, errs, back>>

\* lib.rs 251-262: the syndromes of the corrected block decide the outcome.
Verify ==
  /\ pc = "verify"
  /\ synd2' = calc_syndromes(out, PARITY_LEN)
  /\ IF not_corrected(synd2')
     THEN Return(Uncorrectable("failed to correct all errors"), None)
     ELSE Return(Corrected(Len(errloc) - 1), Some(to_dual(out)))
  /\ UNCHANGED <<orig, input, out, synd, fsynd, errloc, oldloc, iter, errpos,
                 errs, inv_args, back>>

\* lib.rs 266-275: has_errors called on the same 255-byte block.
HasErrors ==
  /\ pc = "done"
  /\ Len(input) = N
  /\ errs = << >>
  /\ errs' = <<has_errors(input)>>
  /\ UNCHANGED <<pc, orig, input, out, synd, fsynd, errloc, oldloc, iter,
                 errpos, synd2, state, message, inv_args, back>>

Next ==
  \/ Validate
  \/ Syndromes
  \/ LocatorIter
  \/ LocatorDone
  \/ Search
  \/ Correct
  \/ Verify
  \/ HasErrors

Spec == Init /\ [][Next]_vars

\* ------------------------------------------------------------------------
\* Basis conversion on its own: to_conv and to_dual applied to byte sequences
\* ------------------------------------------------------------------------

\* Longest sequence of sample bytes converted.
MaxSeqLen == 3

SampleBytes == {0, 1, 128, 255}

\* Every single byte, and every sequence of sample bytes up to MaxSeqLen.
BasisInputs ==
  {<<b>> : b \in Byte} \cup UNION {[1..n -> SampleBytes] : n \in 0..MaxSeqLen}

InitBasis ==
  /\ orig = << >>
  /\ input \in BasisInputs
  /\ pc = "basis"
  /\ Fresh

ToConv ==
  /\ pc = "basis"
  /\ out' = to_conv(input)
  /\ pc' = "conv"
  /\ UNCHANGED <<orig, input, synd, fsynd, errloc, oldloc, iter, errpos,
                 synd2, state, message, errs, inv_args, back>>

ToDual ==
  /\ pc = "basis"
  /\ out' = to_dual(input)
  /\ pc' = "dual"
  /\ UNCHANGED <<orig, input, synd, fsynd, errloc, oldloc, iter, errpos,
                 synd2, state, message, errs, inv_args, back>>

ConvToDual ==
  /\ pc = "conv"
  /\ back' = to_dual(out)
  /\ pc' = "conv_dual"
  /\ UNCHANGED <<orig, input, out, synd, fsynd, errloc, oldloc, iter, errpos,
                 synd2, state, message, errs, inv_args>>

DualToConv ==
  /\ pc = "dual"
  /\ back' = to_conv(out)
  /\ pc' = "dual_conv"
  /\ UNCHANGED <<orig, input, out, synd, fsynd, errloc, oldloc, iter, errpos,
                 synd2, state, message, errs, inv_args>>

NextBasis ==
  \/ ToConv
  \/ ToDual
  \/ ConvToDual
  \/ DualToConv

SpecBasis == InitBasis /\ [][NextBasis]_vars

\* ------------------------------------------------------------------------
\* Properties
\* ------------------------------------------------------------------------

Done == pc = "done"

FullLength == Len(input) = N

\* Number of byte positions at which two blocks of length N differ.
Distance(a, b) == Cardinality({p \in 1..N : a[p] /= b[p]})

\* Number of bytes of the received block that differ from the codeword sent.
NumErrors == Distance(input, orig)

\* The correction capacity, PARITY_LEN / 2 = 16 bytes.
Capacity == PARITY_LEN \div 2

AllZero(s) == \A j \in 1..Len(s) : s[j] = 0

\* A valid codeword: every syndrome of its conventional-basis form is zero.
IsCodeword(b) == AllZero(calc_syndromes(to_conv(b), PARITY_LEN))

\* C1, as stated: a codeword with k errors, 0 <= k <= 16, comes back as
\* Corrected(k) with the codeword as message.
C1_AsStated ==
  (Done /\ FullLength /\ NumErrors <= Capacity)
    => (state = Corrected(NumErrors) /\ message = Some(orig))

\* C1, amended: with 1 <= k <= 16 errors the block comes back as Corrected(k)
\* with the codeword as message; with k = 0 the state is Ok, not Corrected(0),
\* and the message is the codeword.
C1_CorrectsUpToCapacity ==
  (Done /\ FullLength /\ NumErrors <= Capacity)
    => /\ message = Some(orig)
       /\ state = IF NumErrors = 0 THEN StateOk ELSE Corrected(NumErrors)

C1_Witness ==
  /\ Done
  /\ FullLength
  /\ NumErrors = Capacity
  /\ state = Corrected(Capacity)
  /\ message = Some(orig)

C4_AsStated ==
  Done => ((message /= None) <=> (state.tag = "Corrected"))

\* C5: an input of a length other than 255 is rejected as Uncorrectable
\* ("invalid input") with no message, before any later stage has run.
C5_InvalidLengthRejected ==
  (~FullLength)
    => /\ pc \in {"validate", "done"}
       /\ Done => (state = Uncorrectable("invalid input") /\ message = None)
       /\ out = << >> /\ synd = << >> /\ fsynd = << >> /\ errloc = << >>
       /\ errpos = << >> /\ synd2 = << >>

C5_Witness ==
  /\ Done
  /\ Len(input) = N + 1
  /\ state = Uncorrectable("invalid input")

\* C6: Corrected is returned only after the syndromes of the corrected block
\* were recomputed and found all zero, so the returned message is a codeword;
\* a nonzero recomputed syndrome gives Uncorrectable("failed to correct all
\* errors") and no message.
C6_VerifiedBeforeCorrected ==
  /\ (Done /\ state.tag = "Corrected")
       => /\ Len(synd2) = PARITY_LEN + 1
          /\ AllZero(synd2)
          /\ message /= None
          /\ IsCodeword(message[1])
  /\ (synd2 /= << >> /\ ~AllZero(synd2))
       => /\ state = Uncorrectable("failed to correct all errors")
          /\ message = None

C6_Witness ==
  /\ Done
  /\ state.tag = "Corrected"
  /\ state.n > 1
  /\ AllZero(synd2)
  /\ Len(synd2) = PARITY_LEN + 1

\* C7: has_errors is false exactly when every syndrome of the block is zero,
\* that is exactly when correct_message returns Ok.
C7_HasErrorsIffNonzeroSyndrome ==
  (errs /= << >>)
    => /\ (errs[1] = FALSE) <=> AllZero(synd)
       /\ (errs[1] = FALSE) <=> (state.tag = "Ok")

C7_Witness ==
  /\ errs = <<TRUE>>
  /\ state.tag = "Uncorrectable"
  /\ ~AllZero(synd)

\* C8: to_dual after to_conv and to_conv after to_dual give back every byte,
\* and both keep the length and convert each byte on its own.
C8_BasisInverse ==
  /\ pc \in {"conv_dual", "dual_conv"} => back = input
  /\ pc \in {"conv", "conv_dual"}
       => /\ Len(out) = Len(input)
          /\ \A j \in 1..Len(input) : out[j] = to_conv(<<input[j]>>)[1]
  /\ pc \in {"dual", "dual_conv"}
       => /\ Len(out) = Len(input)
          /\ \A j \in 1..Len(input) : out[j] = to_dual(<<input[j]>>)[1]

C8_Witness ==
  /\ pc = "conv_dual"
  /\ Len(input) > 1
  /\ out /= input
  /\ back = input

\* C9: no input of length 255 makes correct_message panic: at step k of
\* find_error_locator the locator has at most k + 1 coefficients, its
\* constant term is 1 throughout (so it is not empty once stripped), gf::inv
\* is applied to nonzero values only, and every located position is in
\* [0, 255).
C9_NoPanic ==
  /\ pc /= "panic"
  /\ pc = "locate"
       => /\ Len(errloc) <= iter + synd_shift(fsynd, PARITY_LEN) + 1
          /\ Len(errloc) >= 1
          /\ errloc[Len(errloc)] = 1
  /\ pc \in {"search", "correct", "verify"}
       => /\ Len(errloc) >= 1
          /\ errloc[Len(errloc)] = 1
  /\ 0 \notin inv_args
  /\ \A j \in 1..Len(errpos) : errpos[j] \in 0..(N - 1)

C9_Witness ==
  /\ Done
  /\ state.tag = "Corrected"
  /\ iter = PARITY_LEN
  /\ inv_args /= {}
  /\ \E j \in 1..Len(errpos) : errpos[j] = N - 1
  /\ \E j \in 1..Len(errpos) : errpos[j] = 0

\* C10: Corrected(n) has 1 <= n <= 16: a locator of degree above 16 is
\* rejected before the position search, and a locator of degree 0 changes no
\* byte, so the recomputed syndromes are the original nonzero ones and the
\* block is rejected by the final verification.
C10_CorrectedCount ==
  /\ (Done /\ state.tag = "Corrected") => state.n \in 1..Capacity
  /\ pc \in {"search", "correct", "verify"} => Len(errloc) - 1 <= Capacity
  /\ (Done /\ state.tag = "Uncorrectable"
           /\ state.reason = "too many errors to correct")
       => /\ state.found = Len(errloc) - 1
          /\ state.found > Capacity
          /\ errpos = << >>
          /\ message = None
  /\ (Done /\ synd2 /= << >> /\ Len(errloc) = 1)
       => /\ out = to_conv(input)
          /\ synd2 = synd
          /\ ~AllZero(synd)
          /\ state = Uncorrectable("failed to correct all errors")

C10_Witness ==
  /\ Done
  /\ Len(errloc) = 1
  /\ synd2 /= << >>
  /\ state = Uncorrectable("failed to correct all errors")

====
